---- MODULE Spec2Model ----
(***************************************************************************)
(* Model of arithmetic_practice_generator.py: the problem generators       *)
(* (generate_problem, generate_powers_of_ten_problem) and the page loops   *)
(* of generate_worksheet / generate_powers_worksheet.                      *)
(*                                                                         *)
(* Text is modelled as a sequence of one-character strings, so that        *)
(* formatting and reading back are computed, character by character.      *)
(* A call of random.randint / random.choice is the set of values the call  *)
(* can return: every value of the range when a generator is called on its  *)
(* own, and the one value fixed by the seed and the position of the draw   *)
(* when a whole worksheet is generated (a run of the pseudo-random         *)
(* generator is a function of its seed).                                   *)
(***************************************************************************)
EXTENDS Integers, Sequences, FiniteSets, TLC

VARIABLES
    entry,          \* the entry point that was called
    args,           \* its arguments
    pc,             \* position of the call
    seed,           \* seed of the random module for this run, or NoSeed
    ret,            \* value returned / exception raised by the call
    locals,         \* generate_powers_of_ten_problem: the operands drawn
    problems,       \* generate_*worksheet: the list `problems`
    total_pages,    \* generate_*worksheet: local total_pages
    current_page,   \* generate_*worksheet: local current_page
    problem_idx,    \* generate_*worksheet: local problem_idx
    row,            \* generate_*worksheet: loop variable row
    col,            \* generate_*worksheet: loop variable col
    pass,           \* generate_*worksheet: 1 = plain pass, 2 = answer key
    canvas          \* the reportlab canvas: emitted pages, page in progress, saved

vars == <<entry, args, pc, seed, ret, locals, problems, total_pages, current_page,
          problem_idx, row, col, pass, canvas>>

(***************************************************************************)
(* Bounds of the model.                                                    *)
(***************************************************************************)
MaxNeg == 1          \* min_val / max_val range over -MaxNeg .. MaxVal
MaxVal == 13         \* above the clamp of 12 used for * and /
MaxProblems == 31    \* num_problems ranges over 0 .. MaxProblems
MaxSeed == 1         \* seeds 0 .. MaxSeed of a worksheet run

NoSeed == 0 - 1
None == [none |-> TRUE]

Min(a, b) == IF a < b THEN a ELSE b
Max(a, b) == IF a > b THEN a ELSE b

(***************************************************************************)
(* random.randint(lo, hi), the j-th draw made while building one problem.  *)
(* The empty set stands for ValueError (empty range).                      *)
(***************************************************************************)
raw(j) == seed + 11 * Len(problems) + 3 * j

randint(lo, hi, j) ==
    IF lo > hi THEN {}
    ELSE IF seed = NoSeed THEN lo .. hi
    ELSE {lo + (raw(j) % (hi - lo + 1))}

choice(seq, j) == {seq[i] : i \in randint(1, Len(seq), j)}

Raise(type, msg) == [raised |-> type, message |-> msg]
IsError(r) == "raised" \in DOMAIN r

OrRaise(S) == IF S = {} THEN {Raise("ValueError", "empty range for randrange()")} ELSE S

(***************************************************************************)
(* generate_problem                                                        *)
(***************************************************************************)
TimesClamp == 12

Problem(a, b, operation, answer) ==
    [top |-> a, bottom |-> b, operation |-> operation, answer |-> answer]

add_problem(min_val, max_val) ==
    {Problem(a, b, "+", a + b) :
        a \in randint(min_val, max_val, 1), b \in randint(min_val, max_val, 2)}

\* Variant of sub_bottom that ignores allow_negative_results (fault injection).
sub_bottom_mut(min_val, max_val, a, allow_negative_results) ==
    randint(min_val, max_val, 2)

sub_bottom(min_val, max_val, a, allow_negative_results) ==
    IF allow_negative_results
        THEN randint(min_val, max_val, 2)
        ELSE randint(min_val, a, 2)

sub_problem(min_val, max_val, allow_negative_results) ==
    UNION {{Problem(a, b, "-", a - b) :
               b \in sub_bottom(min_val, max_val, a, allow_negative_results)} :
           a \in randint(min_val, max_val, 1)}

\* Variant of mul_problem that keeps the ASCII alias (fault injection).
mul_problem_alias(min_val, max_val) ==
    {Problem(a, b, "*", a * b) :
        a \in randint(min_val, Min(max_val, TimesClamp), 1),
        b \in randint(min_val, Min(max_val, TimesClamp), 2)}

mul_problem(min_val, max_val) ==
    {Problem(a, b, "×", a * b) :
        a \in randint(min_val, Min(max_val, TimesClamp), 1),
        b \in randint(min_val, Min(max_val, TimesClamp), 2)}

\* Variant of div_bottom without the max(1, ...) guard (fault injection).
div_bottom_mut(min_val, max_val) == randint(min_val, Min(max_val, TimesClamp), 1)

div_bottom(min_val, max_val) == randint(Max(1, min_val), Min(max_val, TimesClamp), 1)

div_problem(min_val, max_val) ==
    {Problem(b * answer, b, "÷", answer) :
        b \in div_bottom(min_val, max_val),
        answer \in randint(min_val, Min(max_val, TimesClamp), 2)}

\* Variant of unknown_operation that returns a record (fault injection).
unknown_operation_mut(operation) == {Problem(0, 0, operation, 0)}

unknown_operation(operation) == {Raise("ValueError", "Unknown operation")}

generate_problem(operation, min_val, max_val, allow_negative_results) ==
    IF operation = "+" THEN OrRaise(add_problem(min_val, max_val))
    ELSE IF operation = "-"
        THEN OrRaise(sub_problem(min_val, max_val, allow_negative_results))
    ELSE IF operation = "*" \/ operation = "×"
        THEN OrRaise(mul_problem(min_val, max_val))
    ELSE IF operation = "/" \/ operation = "÷"
        THEN OrRaise(div_problem(min_val, max_val))
    ELSE unknown_operation(operation)

(***************************************************************************)
(* Text: str(), format specs and str.rstrip on sequences of characters.    *)
(***************************************************************************)
DigitChars == <<"0", "1", "2", "3", "4", "5", "6", "7", "8", "9">>

RECURSIVE Pow10(_)
Pow10(n) == IF n <= 0 THEN 1 ELSE 10 * Pow10(n - 1)

RECURSIVE NatStr(_)
NatStr(n) ==
    IF n < 10 THEN <<DigitChars[n + 1]>>
    ELSE NatStr(n \div 10) \o <<DigitChars[(n % 10) + 1]>>

\* str(n) of a Python int
str(n) == IF n < 0 THEN <<"-">> \o NatStr(0 - n) ELSE NatStr(n)

\* The superscript glyph of character c is written "^c" (one character of text).
SUPERSCRIPT_MAP ==
    ("0" :> "^0") @@ ("1" :> "^1") @@ ("2" :> "^2") @@ ("3" :> "^3") @@ ("4" :> "^4") @@
    ("5" :> "^5") @@ ("6" :> "^6") @@ ("7" :> "^7") @@ ("8" :> "^8") @@ ("9" :> "^9") @@
    ("-" :> "^-") @@ ("+" :> "^+")

to_superscript(num) ==
    [i \in 1 .. Len(str(num)) |->
        LET c == str(num)[i]
        IN  IF c \in DOMAIN SUPERSCRIPT_MAP THEN SUPERSCRIPT_MAP[c] ELSE c]

RECURSIVE rstrip(_, _)
rstrip(s, ch) ==
    IF s # <<>> /\ s[Len(s)] = ch THEN rstrip(SubSeq(s, 1, Len(s) - 1), ch) ELSE s

RECURSIVE ZeroPad(_, _)
ZeroPad(s, width) == IF Len(s) >= width THEN s ELSE ZeroPad(<<"0">> \o s, width)

(***************************************************************************)
(* Numbers.  A Python float is modelled by the exact rational num / den it *)
(* approximates (den > 0); the values the generators reach are integers    *)
(* and tenths, for which one float division and the decimal formatting     *)
(* are exact to the digits printed.                                        *)
(***************************************************************************)
Q(num, den) == [num |-> num, den |-> den]
QLess(x, y) == x.num * y.den < y.num * x.den
QDiv10(x) == Q(x.num, x.den * 10)
QMul10(x) == Q(x.num * 10, x.den)
\* x == int(x)
IsWhole(x) == x.num % x.den = 0
\* int(x), x >= 0
IntOf(x) == x.num \div x.den

\* round(num / den) to the nearest integer, ties to even (num >= 0)
RoundHalfEven(num, den) ==
    LET q == num \div den
        r == num % den
    IN  IF 2 * r < den THEN q
        ELSE IF 2 * r > den THEN q + 1
        ELSE IF q % 2 = 0 THEN q ELSE q + 1

\* f"{x:.{nd}f}" for x >= 0
fixed_format(x, nd) ==
    LET scaled == RoundHalfEven(x.num * Pow10(nd), x.den)
        whole == NatStr(scaled \div Pow10(nd))
    IN  IF nd = 0 THEN whole
        ELSE whole \o <<".">> \o ZeroPad(NatStr(scaled % Pow10(nd)), nd)

\* f"{x}" of a float x >= 0: the shortest decimal that reads back as x
\* (at least one and at most 17 fractional digits)
RECURSIVE repr_digits(_, _)
repr_digits(x, d) ==
    IF d >= 17 \/ (x.num * Pow10(d)) % x.den = 0 THEN d ELSE repr_digits(x, d + 1)

float_repr(x) == fixed_format(x, repr_digits(x, 1))

(***************************************************************************)
(* Powers of ten: normalization and formatting of a scientific answer.     *)
(***************************************************************************)
TimesTen == <<" ", "×", " ", "1", "0">>

\* Variant of normalize_down whose loop never runs (fault injection).
normalize_down_mut(x, e) == [coef |-> x, exp |-> e]

\* while result_coef >= 10: result_coef /= 10; result_exp += 1
RECURSIVE normalize_down(_, _)
normalize_down(x, e) ==
    IF ~QLess(x, Q(10, 1)) THEN normalize_down(QDiv10(x), e + 1)
    ELSE [coef |-> x, exp |-> e]

\* while 0 < result_coef < 1: result_coef *= 10; result_exp -= 1
RECURSIVE normalize_up(_, _)
normalize_up(x, e) ==
    IF 0 < x.num /\ QLess(x, Q(1, 1)) THEN normalize_up(QMul10(x), e - 1)
    ELSE [coef |-> x, exp |-> e]

normalize(x, e) ==
    LET d == normalize_down(x, e) IN normalize_up(d.coef, d.exp)

\* Variant of format_coef without the two rstrip calls (fault injection).
format_coef_unstripped(x) ==
    IF IsWhole(x) THEN str(IntOf(x))
    ELSE fixed_format(x, 2)

format_coef(x) ==
    IF IsWhole(x) THEN str(IntOf(x))
    ELSE rstrip(rstrip(fixed_format(x, 2), "0"), ".")

scientific_answer(result_coef, result_exp) ==
    LET r == normalize(result_coef, result_exp)
    IN  format_coef(r.coef) \o TimesTen \o to_superscript(r.exp)

\* "{a} × 10{to_superscript(m)}"
term(a, m) == str(a) \o TimesTen \o to_superscript(m)
paren(t) == <<"(">> \o t \o <<")">>
Times == <<" ", "×", " ">>
Divide == <<" ", "÷", " ">>

RangeSeq(lo, hi) == [i \in 1 .. (hi - lo + 1) |-> lo + i - 1]
\* Variant of divisors_of with the operands of % exchanged (fault injection).
divisors_of_swapped(product, lo, hi) ==
    LET IsDiv(d) == d % product = 0 IN SelectSeq(RangeSeq(lo, hi), IsDiv)

\* [d for d in range(lo, hi + 1) if product % d == 0]
divisors_of(product, lo, hi) ==
    LET IsDiv(d) == product % d = 0 IN SelectSeq(RangeSeq(lo, hi), IsDiv)

Frame(dict, operands) == [dict |-> dict, locals |-> operands]

\* A generator returns (or raises) to its caller: the test driver of a direct
\* call, or the generation loop of a worksheet.
IsSheet == entry \in {"generate_worksheet", "generate_powers_worksheet"}

Return(f) ==
    /\ ret' = f.dict
    /\ locals' = f.locals
    /\ pc' = IF IsError(f.dict) THEN "raised"
             ELSE IF IsSheet THEN "append" ELSE "returned"

(***************************************************************************)
(* _generate_basic_powers_problem                                          *)
(***************************************************************************)
\* Variant of basic_single_answer with a fixed ".3f" and no rstrip (fault injection).
basic_single_answer_mut(coef, exp) ==
    IF exp >= 0 THEN str(coef * Pow10(exp))
    ELSE fixed_format(Q(coef, Pow10(0 - exp)), 3)

\* str(int(answer_val)) or f"{answer_val:.{abs(exp)}f}".rstrip('0').rstrip('.')
basic_single_answer(coef, exp) ==
    IF exp >= 0 THEN str(coef * Pow10(exp))
    ELSE rstrip(rstrip(fixed_format(Q(coef, Pow10(0 - exp)), 0 - exp), "0"), ".")

basic_single(coef, exp) ==
    Frame([expression |-> term(coef, exp),
           answer |-> basic_single_answer(coef, exp),
           answer_scientific |-> term(coef, exp),
           is_horizontal |-> TRUE,
           has_division |-> FALSE],
          [problem_type |-> "single", coef |-> coef, exp |-> exp])

\* Variant of basic_normalize that forgets result_exp += 1 (fault injection).
basic_normalize_mut(result_coef, result_exp) ==
    IF result_coef >= 10
        THEN [coef |-> Q(result_coef, 10), exp |-> result_exp]
        ELSE [coef |-> Q(result_coef, 1), exp |-> result_exp]

\* if result_coef >= 10: result_coef = result_coef / 10; result_exp += 1
basic_normalize(result_coef, result_exp) ==
    IF result_coef >= 10
        THEN [coef |-> Q(result_coef, 10), exp |-> result_exp + 1]
        ELSE [coef |-> Q(result_coef, 1), exp |-> result_exp]

basic_multiply_answer(a, b, m, n) ==
    LET r == basic_normalize(a * b, m + n)
    IN  IF IsWhole(r.coef)
            THEN str(IntOf(r.coef)) \o TimesTen \o to_superscript(r.exp)
            ELSE float_repr(r.coef) \o TimesTen \o to_superscript(r.exp)

basic_multiply_two(a, b, m, n) ==
    Frame([expression |-> paren(term(a, m)) \o Times \o paren(term(b, n)),
           answer |-> basic_multiply_answer(a, b, m, n),
           is_horizontal |-> TRUE,
           has_division |-> FALSE],
          [problem_type |-> "multiply_two", a |-> a, b |-> b, m |-> m, n |-> n])

_generate_basic_powers_problem ==
    \E problem_type \in choice(<<"single", "multiply_two">>, 1) :
        IF problem_type = "single"
        THEN \E coef \in randint(1, 9, 2), exp \in randint(-3, 6, 3) :
                 Return(basic_single(coef, exp))
        ELSE \E a \in randint(1, 9, 2), b \in randint(1, 9, 3),
                m \in randint(1, 4, 4), n \in randint(1, 4, 5) :
                 Return(basic_multiply_two(a, b, m, n))

(***************************************************************************)
(* _generate_intermediate_powers_problem                                   *)
(***************************************************************************)
intermediate_multiply(a, b, m, n) ==
    Frame([expression |-> paren(term(a, m)) \o Times \o paren(term(b, n)),
           answer |-> scientific_answer(Q(a * b, 1), m + n),
           is_horizontal |-> TRUE,
           has_division |-> FALSE],
          [problem_type |-> "multiply", a |-> a, b |-> b, m |-> m, n |-> n])

intermediate_divide(a, b, m, n) ==
    Frame([expression |-> paren(term(a, m)) \o Divide \o paren(term(b, n)),
           answer |-> scientific_answer(Q(a, b), m - n),
           is_horizontal |-> FALSE,
           has_division |-> TRUE],
          [problem_type |-> "divide", a |-> a, b |-> b, m |-> m, n |-> n])

\* The operands (a, b) of the divide branch: result and b are drawn, a = result * b,
\* and when a > 9 both are drawn again, b among the divisors of a in 1..9.
\* (The a and b drawn before the branch are overwritten.)
divide_operands ==
    UNION {
        IF result * b > 9
        THEN UNION {{<<a, b2>> : b2 \in choice(divisors_of(a, 1, 9), 9)} :
                       a \in randint(2, 9, 8)}
        ELSE {<<result * b, b>>}
        : result \in randint(2, 9, 6), b \in randint(2, 9, 7)}

_generate_intermediate_powers_problem ==
    \E problem_type \in choice(<<"multiply", "divide">>, 1) :
        IF problem_type = "multiply"
        THEN \E a \in randint(2, 9, 2), b \in randint(2, 9, 3),
                m \in randint(-3, 5, 4), n \in randint(-3, 5, 5) :
                 Return(intermediate_multiply(a, b, m, n))
        ELSE \E ab \in divide_operands,
                m \in randint(-3, 5, 4), n \in randint(-3, 5, 5) :
                 Return(intermediate_divide(ab[1], ab[2], m, n))

(***************************************************************************)
(* _generate_advanced_powers_problem                                       *)
(***************************************************************************)
\* c = random.choice(divisors) if divisors else <fallback>
pick_divisor(divisors, fallback, j) ==
    IF divisors # <<>> THEN choice(divisors, j) ELSE fallback

advanced_fraction(a, b, m, n, c) ==
    Frame([expression |->
               paren(term(a, m) \o Times \o term(b, n)) \o Divide \o str(c),
           answer |-> scientific_answer(Q(a * b, c), m + n),
           is_horizontal |-> FALSE,
           has_division |-> TRUE,
           is_fraction |-> FALSE],
          [problem_type |-> "fraction", a |-> a, b |-> b, m |-> m, n |-> n,
           c |-> c, p |-> 0])

advanced_multi_term(a, b, m, n, p, c) ==
    Frame([expression |->
               paren(term(a, m)) \o Times \o paren(term(b, n)) \o Divide
                   \o paren(term(c, p)),
           answer |-> scientific_answer(Q(a * b, c), m + n - p),
           is_horizontal |-> FALSE,
           has_division |-> TRUE,
           is_fraction |-> FALSE],
          [problem_type |-> "multi_term", a |-> a, b |-> b, m |-> m, n |-> n,
           c |-> c, p |-> p])

\* Variant of advanced_complex_fraction that returns is_fraction False, as the
\* other advanced templates do (fault injection).
advanced_complex_fraction_flag(a, b, m, n, c, p) ==
    Frame([expression |->
               [numerator |-> term(a, m) \o Times \o term(b, n),
                denominator |-> term(c, p)],
           answer |-> scientific_answer(Q(a * b, c), m + n - p),
           is_horizontal |-> FALSE,
           has_division |-> TRUE,
           is_fraction |-> FALSE],
          [problem_type |-> "complex_fraction", a |-> a, b |-> b, m |-> m, n |-> n,
           c |-> c, p |-> p])

advanced_complex_fraction(a, b, m, n, c, p) ==
    Frame([expression |->
               [numerator |-> term(a, m) \o Times \o term(b, n),
                denominator |-> term(c, p)],
           answer |-> scientific_answer(Q(a * b, c), m + n - p),
           is_horizontal |-> FALSE,
           has_division |-> TRUE,
           is_fraction |-> TRUE],
          [problem_type |-> "complex_fraction", a |-> a, b |-> b, m |-> m, n |-> n,
           c |-> c, p |-> p])

_generate_advanced_powers_problem ==
    \E problem_type \in choice(<<"fraction", "multi_term", "complex_fraction">>, 1) :
        IF problem_type = "fraction"
        THEN \E a \in randint(2, 9, 2), b \in randint(2, 8, 3),
                m \in randint(2, 6, 4), n \in randint(-3, 3, 5) :
                 \E c \in pick_divisor(divisors_of(a * b, 2, 19), {1}, 6) :
                     Return(advanced_fraction(a, b, m, n, c))
        ELSE IF problem_type = "multi_term"
        THEN \E a \in randint(2, 9, 2), b \in randint(2, 9, 3),
                m \in randint(2, 5, 4), n \in randint(-2, 3, 5),
                p \in randint(-2, 4, 6) :
                 \E c \in pick_divisor(divisors_of(a * b, 2, 9),
                                        randint(2, 5, 7), 7) :
                     Return(advanced_multi_term(a, b, m, n, p, c))
        ELSE \E a \in randint(2, 9, 2), b \in randint(2, 9, 3),
                m \in randint(3, 6, 4), n \in randint(-2, 3, 5) :
                 \E c \in pick_divisor(divisors_of(a * b, 2, 11),
                                        randint(2, 6, 6), 6) :
                     \E p \in randint(1, 4, 7) :
                         Return(advanced_complex_fraction(a, b, m, n, c, p))

generate_powers_of_ten_problem(level) ==
    IF level = "basic" THEN _generate_basic_powers_problem
    ELSE IF level = "intermediate" THEN _generate_intermediate_powers_problem
    ELSE _generate_advanced_powers_problem

(***************************************************************************)
(* Entry point: a direct call of generate_problem.                         *)
(***************************************************************************)
Recognized == {"+", "-", "*", "×", "/", "÷"}
OperationTokens == Recognized \cup {"x", "%"}
Values == (0 - MaxNeg) .. MaxVal

NoSheet ==
    /\ problems = <<>>
    /\ total_pages = 0
    /\ current_page = 0
    /\ problem_idx = 0
    /\ row = 0
    /\ col = 0
    /\ pass = 0
    /\ canvas = None

SheetUnchanged ==
    UNCHANGED <<problems, total_pages, current_page, problem_idx, row, col, pass, canvas>>

InitArith ==
    /\ entry = "generate_problem"
    /\ args \in [operation : OperationTokens, min_val : Values, max_val : Values,
                 allow_negative_results : BOOLEAN]
    /\ pc = "call"
    /\ seed = NoSeed
    /\ ret = None
    /\ locals = None
    /\ NoSheet

\* The arguments of the call: those of the direct call, or those passed by the
\* generation loop of generate_worksheet (allow_negative_results is left at
\* its default, False).
\* Variant of call_args that passes the operation argument also when
\* mixed_operations is set (fault injection).
call_args_unmixed ==
    IF entry = "generate_problem" THEN {args}
    ELSE {[operation |-> args.operation, min_val |-> args.min_val,
           max_val |-> args.max_val, allow_negative_results |-> FALSE]}

call_args ==
    IF entry = "generate_problem" THEN {args}
    ELSE {[operation |-> op, min_val |-> args.min_val, max_val |-> args.max_val,
           allow_negative_results |-> FALSE] :
             op \in IF args.mixed_operations
                       THEN choice(<<"+", "-", "×", "÷">>, 0)
                       ELSE {args.operation}}

GenerateProblem ==
    /\ pc = "call"
    /\ \/ entry = "generate_problem"
       \/ entry = "generate_worksheet" /\ Len(problems) < args.num_problems
    /\ \E a \in call_args :
          \E r \in generate_problem(a.operation, a.min_val, a.max_val,
                                    a.allow_negative_results) :
              Return(Frame(r, None))
    /\ UNCHANGED <<entry, args, seed>>
    /\ SheetUnchanged

NextArith == GenerateProblem

SpecArith == InitArith /\ [][NextArith]_vars

(***************************************************************************)
(* Entry point: a direct call of generate_powers_of_ten_problem.           *)
(***************************************************************************)
Levels == {"basic", "intermediate", "advanced"}

InitPowers ==
    /\ entry = "generate_powers_of_ten_problem"
    /\ args \in [level : Levels]
    /\ pc = "call"
    /\ seed = NoSeed
    /\ ret = None
    /\ locals = None
    /\ NoSheet

GeneratePowersProblem ==
    /\ pc = "call"
    /\ \/ entry = "generate_powers_of_ten_problem"
       \/ entry = "generate_powers_worksheet" /\ Len(problems) < args.num_problems
    /\ generate_powers_of_ten_problem(args.level)
    /\ UNCHANGED <<entry, args, seed>>
    /\ SheetUnchanged

NextPowers == GeneratePowersProblem

SpecPowers == InitPowers /\ [][NextPowers]_vars

(***************************************************************************)
(* generate_worksheet and generate_powers_worksheet.                       *)
(* The canvas holds the pages emitted by showPage, the page being drawn    *)
(* and whether save() was called.  A page is its footer ("Page page_num of *)
(* total_pages"), its header (answer key or not) and the cells drawn.      *)
(***************************************************************************)
problems_per_row == IF entry = "generate_worksheet" THEN 5 ELSE 2
rows_per_page == IF entry = "generate_worksheet" THEN 6 ELSE 5
problems_per_page == problems_per_row * rows_per_page

BlankPage == [header |-> None, cells |-> <<>>]

\* create_header_footer: the page number text and the title drawn
create_header_footer(page_num, pages, answer_key) ==
    [page_num |-> page_num, total_pages |-> pages, answer_key |-> answer_key]

\* _draw_vertical_problem: what is drawn in the cell
_draw_vertical_problem(problem, show_answer) ==
    [top |-> str(problem.top), operation |-> problem.operation,
     bottom |-> str(problem.bottom),
     answer |-> IF show_answer THEN str(problem.answer) ELSE None]

IsDict(expression) == DOMAIN expression = {"numerator", "denominator"}

\* _draw_powers_problem: the branch taken and what is drawn in the cell
_draw_powers_problem(problem, show_answer) ==
    LET is_fraction ==
            IF "is_fraction" \in DOMAIN problem THEN problem.is_fraction ELSE FALSE
    IN  IF is_fraction /\ IsDict(problem.expression)
        THEN [layout |-> "fraction",
              numerator |-> problem.expression.numerator,
              denominator |-> problem.expression.denominator,
              answer |-> IF show_answer THEN problem.answer ELSE None]
        ELSE [layout |-> "text",
              expression |-> problem.expression,
              answer |-> IF show_answer THEN problem.answer ELSE None]

draw_problem(problem, show_answer) ==
    IF entry = "generate_worksheet"
        THEN _draw_vertical_problem(problem, show_answer)
        ELSE _draw_powers_problem(problem, show_answer)

\* Variant of pages_needed that forgets to double for the answer key (fault injection).
pages_needed_mut(num_problems, show_answers) ==
    (num_problems + problems_per_page - 1) \div problems_per_page

\* total_pages = (num_problems + problems_per_page - 1) // problems_per_page,
\* doubled for the answer key
pages_needed(num_problems, show_answers) ==
    LET single == (num_problems + problems_per_page - 1) \div problems_per_page
    IN  IF show_answers THEN single * 2 ELSE single

SheetRanges == {<<1, MaxVal>>, <<MaxVal, MaxVal>>}

InitSheet ==
    /\ \/ /\ entry = "generate_worksheet"
          /\ \E n \in 0 .. MaxProblems, op \in OperationTokens, r \in SheetRanges,
                show \in BOOLEAN, mixed \in BOOLEAN :
                args = [num_problems |-> n, operation |-> op, min_val |-> r[1],
                        max_val |-> r[2], show_answers |-> show,
                        mixed_operations |-> mixed]
       \/ /\ entry = "generate_powers_worksheet"
          /\ args \in [num_problems : 0 .. MaxProblems, level : Levels,
                       show_answers : BOOLEAN]
    /\ pc = "call"
    /\ seed \in 0 .. MaxSeed
    /\ ret = None
    /\ locals = None
    /\ NoSheet

\* problems.append(<the problem returned>)
AppendProblem ==
    /\ IsSheet
    /\ pc = "append"
    /\ problems' = Append(problems, ret)
    /\ pc' = "call"
    /\ UNCHANGED <<entry, args, seed, ret, locals, total_pages, current_page,
                   problem_idx, row, col, pass, canvas>>

\* After the generation loop: total_pages, the canvas, current_page, problem_idx
Setup ==
    /\ IsSheet
    /\ pc = "call"
    /\ Len(problems) >= args.num_problems
    /\ total_pages' = pages_needed(args.num_problems, args.show_answers)
    /\ canvas' = [pages |-> <<>>, page |-> BlankPage, saved |-> FALSE]
    /\ current_page' = 1
    /\ problem_idx' = 0
    /\ pass' = 1
    /\ pc' = "while"
    /\ UNCHANGED <<entry, args, seed, ret, locals, problems, row, col>>

\* while problem_idx < num_problems: create_header_footer(...); enter the grid
StartPage ==
    /\ IsSheet
    /\ pc = "while"
    /\ problem_idx < args.num_problems
    /\ canvas' = [canvas EXCEPT !.page.header =
                      create_header_footer(current_page, total_pages, pass = 2)]
    /\ row' = 0
    /\ col' = 0
    /\ pc' = "cell"
    /\ UNCHANGED <<entry, args, seed, ret, locals, problems, total_pages,
                   current_page, problem_idx, pass>>

\* Variant of after_cell that stops one row early (fault injection).
after_cell_mut(idx) ==
    IF col + 1 < problems_per_row THEN [pc |-> "cell", row |-> row, col |-> col + 1]
    ELSE IF idx >= args.num_problems THEN [pc |-> "show", row |-> row, col |-> col]
    ELSE IF row + 1 < rows_per_page - 1 THEN [pc |-> "cell", row |-> row + 1, col |-> 0]
    ELSE [pc |-> "show", row |-> row, col |-> col]

\* Position after the body of the inner loop ran at (row, col) and left
\* problem_idx at idx: next column, else (inner loop over) the outer break
\* test, else next row, else the grid is done.
after_cell(idx) ==
    IF col + 1 < problems_per_row THEN [pc |-> "cell", row |-> row, col |-> col + 1]
    ELSE IF idx >= args.num_problems THEN [pc |-> "show", row |-> row, col |-> col]
    ELSE IF row + 1 < rows_per_page THEN [pc |-> "cell", row |-> row + 1, col |-> 0]
    ELSE [pc |-> "show", row |-> row, col |-> col]

\* The body of the inner loop for a problem that exists
DrawCell ==
    /\ IsSheet
    /\ pc = "cell"
    /\ problem_idx < args.num_problems
    /\ canvas' = [canvas EXCEPT !.page.cells = Append(@,
                      [row |-> row, col |-> col,
                       label |-> str(problem_idx + 1) \o <<".">>,
                       idx |-> problem_idx,
                       drawn |-> draw_problem(problems[problem_idx + 1], pass = 2)])]
    /\ problem_idx' = problem_idx + 1
    /\ LET next == after_cell(problem_idx + 1)
       IN  pc' = next.pc /\ row' = next.row /\ col' = next.col
    /\ UNCHANGED <<entry, args, seed, ret, locals, problems, total_pages,
                   current_page, pass>>

\* if problem_idx >= num_problems: break (inner loop, then outer loop)
BreakGrid ==
    /\ IsSheet
    /\ pc = "cell"
    /\ problem_idx >= args.num_problems
    /\ pc' = "show"
    /\ UNCHANGED <<entry, args, seed, ret, locals, problems, total_pages,
                   current_page, problem_idx, row, col, pass, canvas>>

\* c.showPage(); current_page += 1
ShowPage ==
    /\ IsSheet
    /\ pc = "show"
    /\ canvas' = [canvas EXCEPT !.pages = Append(@, canvas.page),
                                !.page = BlankPage]
    /\ current_page' = current_page + 1
    /\ pc' = "while"
    /\ UNCHANGED <<entry, args, seed, ret, locals, problems, total_pages,
                   problem_idx, row, col, pass>>

\* Variant of StartAnswerKey without the test of show_answers (fault injection).
StartAnswerKey_always ==
    /\ IsSheet
    /\ pc = "while"
    /\ problem_idx >= args.num_problems
    /\ pass = 1
    /\ pass' = 2
    /\ problem_idx' = 0
    /\ UNCHANGED <<entry, args, pc, seed, ret, locals, problems, total_pages,
                   current_page, row, col, canvas>>

\* Variant of StartAnswerKey that forgets problem_idx = 0 (fault injection).
StartAnswerKey_mut ==
    /\ IsSheet
    /\ pc = "while"
    /\ problem_idx >= args.num_problems
    /\ pass = 1
    /\ args.show_answers
    /\ pass' = 2
    /\ UNCHANGED <<entry, args, pc, seed, ret, locals, problems, total_pages,
                   current_page, problem_idx, row, col, canvas>>

\* if show_answers: problem_idx = 0 and the second while loop
StartAnswerKey ==
    /\ IsSheet
    /\ pc = "while"
    /\ problem_idx >= args.num_problems
    /\ pass = 1
    /\ args.show_answers
    /\ pass' = 2
    /\ problem_idx' = 0
    /\ UNCHANGED <<entry, args, pc, seed, ret, locals, problems, total_pages,
                   current_page, row, col, canvas>>

\* c.save(); return filename
\* Variant of Save with c.save() inside the `if show_answers:` block (fault injection).
Save_in_answer_block ==
    /\ IsSheet
    /\ pc = "while"
    /\ problem_idx >= args.num_problems
    /\ pass = 2 \/ ~args.show_answers
    /\ canvas' = [canvas EXCEPT !.saved = args.show_answers]
    /\ pc' = "done"
    /\ UNCHANGED <<entry, args, seed, ret, locals, problems, total_pages,
                   current_page, problem_idx, row, col, pass>>

Save ==
    /\ IsSheet
    /\ pc = "while"
    /\ problem_idx >= args.num_problems
    /\ pass = 2 \/ ~args.show_answers
    /\ canvas' = [canvas EXCEPT !.saved = TRUE]
    /\ pc' = "done"
    /\ UNCHANGED <<entry, args, seed, ret, locals, problems, total_pages,
                   current_page, problem_idx, row, col, pass>>

NextSheet ==
    \/ GenerateProblem
    \/ GeneratePowersProblem
    \/ AppendProblem
    \/ Setup
    \/ StartPage
    \/ DrawCell
    \/ BreakGrid
    \/ ShowPage
    \/ StartAnswerKey
    \/ Save

SpecSheet == InitSheet /\ [][NextSheet]_vars

\* The call runs on one thread of control: while a statement is left to
\* execute, the interpreter executes it.  A generator called from the
\* generation loop returns or raises (its body is one step: straight-line
\* code and the normalization loops, computed by normalize_down and
\* normalize_up).
CallReturns ==
    /\ IsSheet
    /\ pc = "call"
    /\ Len(problems) < args.num_problems
    /\ pc' \in {"append", "raised"}

SheetStep ==
    \/ AppendProblem
    \/ Setup
    \/ StartPage
    \/ DrawCell
    \/ BreakGrid
    \/ ShowPage
    \/ StartAnswerKey
    \/ Save

FairSpecSheet ==
    InitSheet /\ [][NextSheet]_vars /\ WF_pc(CallReturns) /\ WF_vars(SheetStep)

Init == InitArith \/ InitPowers \/ InitSheet

Next == NextSheet

Spec == Init /\ [][Next]_vars

(***************************************************************************)
(* Reading a formatted answer back: the coefficient and the exponent of    *)
(* "c × 10^e", or the value of a plain decimal.                            *)
(***************************************************************************)
IndexOf(s, ch) ==
    IF \E i \in 1 .. Len(s) : s[i] = ch
        THEN CHOOSE i \in 1 .. Len(s) : s[i] = ch /\ \A k \in 1 .. (i - 1) : s[k] # ch
        ELSE 0

DigitVal(c) == CHOOSE d \in 0 .. 9 : DigitChars[d + 1] = c

RECURSIVE DigitsVal(_)
DigitsVal(s) ==
    IF s = <<>> THEN 0
    ELSE 10 * DigitsVal(SubSeq(s, 1, Len(s) - 1)) + DigitVal(s[Len(s)])

ReadDecimal(t) ==
    LET k == IndexOf(t, ".")
    IN  IF k = 0 THEN Q(DigitsVal(t), 1)
        ELSE Q(DigitsVal(SubSeq(t, 1, k - 1) \o SubSeq(t, k + 1, Len(t))),
               Pow10(Len(t) - k))

Plain(c) == CHOOSE k \in DOMAIN SUPERSCRIPT_MAP : SUPERSCRIPT_MAP[k] = c

ReadExponent(t) ==
    LET plain == [i \in 1 .. Len(t) |-> Plain(t[i])]
    IN  IF plain[1] = "-" THEN 0 - DigitsVal(SubSeq(plain, 2, Len(plain)))
        ELSE DigitsVal(plain)

IsScientific(t) == IndexOf(t, "×") > 0
CoefText(t) == SubSeq(t, 1, IndexOf(t, " ") - 1)
ExpText(t) == SubSeq(t, IndexOf(t, "×") + 4, Len(t))

\* A value num / den * 10^exp
Val(num, den, exp) == [num |-> num, den |-> den, exp |-> exp]

ValEq(v, w) ==
    LET d == v.exp - w.exp
    IN  IF d >= 0 THEN v.num * Pow10(d) * w.den = w.num * v.den
        ELSE v.num * w.den = w.num * Pow10(0 - d) * v.den

\* The value written in an answer
ReadAnswer(t) ==
    IF IsScientific(t)
        THEN LET c == ReadDecimal(CoefText(t))
             IN  Val(c.num, c.den, ReadExponent(ExpText(t)))
        ELSE LET c == ReadDecimal(t) IN Val(c.num, c.den, 0)

\* The value of the expression, from the operands drawn
ExpressionValue(l) ==
    IF l.problem_type = "single" THEN Val(l.coef, 1, l.exp)
    ELSE IF l.problem_type \in {"multiply_two", "multiply"}
        THEN Val(l.a * l.b, 1, l.m + l.n)
    ELSE IF l.problem_type = "divide" THEN Val(l.a, l.b, l.m - l.n)
    ELSE Val(l.a * l.b, l.c, l.m + l.n - l.p)

PowersReturned == entry = "generate_powers_of_ten_problem" /\ pc = "returned"
ArithCalled == entry = "generate_problem"

(***************************************************************************)
(* C1: every problem returned by generate_problem for '÷' or '/' has       *)
(* top = bottom * answer and bottom > 0, whatever min_val and max_val      *)
(* (min_val <= 0 included) and whatever is drawn.                          *)
(***************************************************************************)
C1_DivisionExact ==
    (ArithCalled /\ pc = "returned" /\ args.operation \in {"/", "÷"})
        => /\ ret.top = ret.bottom * ret.answer
           /\ ret.bottom > 0

C1_Witness ==
    /\ ArithCalled /\ pc = "returned" /\ args.operation = "÷"
    /\ args.min_val < 0 /\ ret.answer < 0 /\ ret.bottom > 1

NonNegative(problem) == problem.top >= problem.bottom /\ problem.answer >= 0

(***************************************************************************)
(* C2: a '-' problem generated with allow_negative_results = False has     *)
(* top >= bottom (answer >= 0); so has every '-' problem of the list of a  *)
(* worksheet, which generate_worksheet builds without enabling negatives.  *)
(***************************************************************************)
C2_SubtractionNonNegative ==
    /\ (ArithCalled /\ pc = "returned" /\ args.operation = "-"
            /\ ~args.allow_negative_results)
           => NonNegative(ret)
    /\ entry = "generate_worksheet"
           => /\ \A i \in 1 .. Len(problems) :
                    problems[i].operation = "-" => NonNegative(problems[i])
              /\ (pc = "append" /\ ret.operation = "-") => NonNegative(ret)

C2_Witness ==
    /\ entry = "generate_worksheet" /\ pc = "done" /\ args.mixed_operations
    /\ \E i \in 1 .. Len(problems) :
          problems[i].operation = "-" /\ problems[i].top > problems[i].bottom
    /\ \E i \in 1 .. Len(canvas.pages) : \E j \in 1 .. Len(canvas.pages[i].cells) :
          canvas.pages[i].cells[j].drawn.operation = "-"

(***************************************************************************)
(* C3: generate_problem called with a token outside                        *)
(* {'+', '-', '*', '×', '/', '÷'} ends in an error and returns no problem, *)
(* whatever the other arguments are.                                       *)
(***************************************************************************)
C3_UnknownOperatorRaises ==
    (ArithCalled /\ args.operation \notin Recognized /\ pc # "call")
        => pc = "raised" /\ IsError(ret)

C3_Witness ==
    /\ ArithCalled /\ args.operation \notin Recognized /\ pc = "raised"
    /\ ret.message = "Unknown operation"
    /\ args.min_val > args.max_val /\ args.allow_negative_results

(***************************************************************************)
(* C4: for every recognized operator and every range with                  *)
(* min_val <= max_val, generate_problem returns a problem and does not     *)
(* end in an error.                                                        *)
(***************************************************************************)
C4_RecognizedNeverFails ==
    (ArithCalled /\ args.operation \in Recognized /\ args.min_val <= args.max_val)
        => pc # "raised"

(***************************************************************************)
(* C5: the coefficient written in every scientific-notation answer of the  *)
(* powers generator (every template but the basic single term, whose       *)
(* answer is a plain decimal) is at least 1 and less than 10.              *)
(***************************************************************************)
C5_CoefficientNormalized ==
    (PowersReturned /\ locals.problem_type # "single")
        => /\ IsScientific(ret.answer)
           /\ LET c == ReadDecimal(CoefText(ret.answer))
              IN  ~QLess(c, Q(1, 1)) /\ QLess(c, Q(10, 1))

C5_Witness ==
    /\ PowersReturned /\ locals.problem_type = "complex_fraction"
    /\ (locals.a * locals.b) \div locals.c >= 10
    /\ QLess(ReadDecimal(CoefText(ret.answer)), Q(10, 1))

(***************************************************************************)
(* C6: round trip: the value coefficient * 10^exponent read back from the  *)
(* formatted answer of every powers problem equals the value of its        *)
(* expression computed from the operands drawn.                            *)
(***************************************************************************)
C6_AnswerRoundTrip ==
    PowersReturned => ValEq(ReadAnswer(ret.answer), ExpressionValue(locals))

C6_Witness ==
    /\ PowersReturned /\ locals.problem_type = "multi_term"
    /\ locals.a * locals.b = 72 /\ locals.c = 2
    /\ CoefText(ret.answer) = <<"3", ".", "6">>

ExpectedSuperscript(exp) ==
    IF exp < 0 THEN <<"^-", SUPERSCRIPT_MAP[DigitChars[1 - exp]]>>
    ELSE <<SUPERSCRIPT_MAP[DigitChars[exp + 1]]>>

(***************************************************************************)
(* C7: the basic single-term template with coef in 1..9 and exp in -3..6   *)
(* has expression "coef × 10^exp" and answer the plain decimal value of    *)
(* coef * 10^exp, without trailing zeros after the point and without a     *)
(* trailing point; coef = 5, exp = 3 gives "5 × 10^3" and "5000".          *)
(***************************************************************************)
C7_BasicSingle ==
    (PowersReturned /\ locals.problem_type = "single")
        => /\ locals.coef \in 1 .. 9 /\ locals.exp \in -3 .. 6
           /\ ret.expression = <<DigitChars[locals.coef + 1], " ", "×", " ", "1", "0">>
                                   \o ExpectedSuperscript(locals.exp)
           /\ \A i \in 1 .. Len(ret.answer) :
                  ret.answer[i] = "." \/ \E d \in 1 .. 10 : DigitChars[d] = ret.answer[i]
           /\ ret.answer[Len(ret.answer)] # "."
           /\ IndexOf(ret.answer, ".") > 0 => ret.answer[Len(ret.answer)] # "0"
           /\ ValEq(ReadAnswer(ret.answer), Val(locals.coef, 1, locals.exp))
           /\ (locals.coef = 5 /\ locals.exp = 3)
                  => /\ ret.expression = <<"5", " ", "×", " ", "1", "0", "^3">>
                     /\ ret.answer = <<"5", "0", "0", "0">>

C7_Witness ==
    /\ PowersReturned /\ locals.problem_type = "single"
    /\ locals.coef = 5 /\ locals.exp = 3
    /\ ret.answer = <<"5", "0", "0", "0">>

(***************************************************************************)
(* Pages of a worksheet, by pass.                                          *)
(***************************************************************************)
SheetStarted == IsSheet /\ pc \in {"while", "cell", "show", "done"}
SheetDone == IsSheet /\ pc = "done"

IsKeyPage(page) == page.header.answer_key
IsPlainPage(page) == ~page.header.answer_key
PassPages(key) ==
    IF key THEN SelectSeq(canvas.pages, IsKeyPage)
    ELSE SelectSeq(canvas.pages, IsPlainPage)

RECURSIVE AllCells(_)
AllCells(pages) ==
    IF pages = <<>> THEN <<>> ELSE Head(pages).cells \o AllCells(Tail(pages))

Ceil(n, d) == IF n % d = 0 THEN n \div d ELSE (n \div d) + 1
Capacity == IF entry = "generate_worksheet" THEN 5 * 6 ELSE 2 * 5
Passes == IF args.show_answers THEN {FALSE, TRUE} ELSE {FALSE}

(***************************************************************************)
(* C8: pagination: each pass emits ceil(num_problems / problems_per_page)  *)
(* pages (30 per page for generate_worksheet, 10 for                       *)
(* generate_powers_worksheet), the number of pages emitted is the          *)
(* total_pages printed in every footer, and the page numbers printed are   *)
(* 1, 2, ... in order across both passes, none above total_pages.          *)
(***************************************************************************)
C8_Pagination ==
    SheetStarted =>
        /\ \A i \in 1 .. Len(canvas.pages) :
              /\ canvas.pages[i].header.page_num = i
              /\ canvas.pages[i].header.page_num <= canvas.pages[i].header.total_pages
        /\ canvas.page.header # None =>
              /\ canvas.page.header.page_num = Len(canvas.pages) + 1
              /\ canvas.page.header.page_num <= canvas.page.header.total_pages
        /\ pc = "done" =>
              /\ Len(PassPages(FALSE)) = Ceil(args.num_problems, Capacity)
              /\ Len(PassPages(TRUE)) =
                     IF args.show_answers THEN Ceil(args.num_problems, Capacity) ELSE 0
              /\ \A i \in 1 .. Len(canvas.pages) :
                     canvas.pages[i].header.total_pages = Len(canvas.pages)

C8_Witness ==
    /\ SheetDone /\ entry = "generate_worksheet" /\ args.show_answers
    /\ args.num_problems = 31
    /\ Len(canvas.pages) = 4
    /\ canvas.pages[4].header = [page_num |-> 4, total_pages |-> 4, answer_key |-> TRUE]

(***************************************************************************)
(* C9: in each pass every problem k in 0 .. num_problems - 1 is drawn      *)
(* exactly once, in increasing order, labelled k + 1; no page holds more   *)
(* than rows * columns problems, every page but the last of a pass is      *)
(* full, and no page is empty.                                             *)
(***************************************************************************)
C9_EveryProblemDrawnOnce ==
    SheetStarted =>
        /\ \A i \in 1 .. Len(canvas.pages) :
              /\ Len(canvas.pages[i].cells) >= 1
              /\ Len(canvas.pages[i].cells) <= Capacity
              /\ (i < Len(canvas.pages)
                    /\ canvas.pages[i + 1].header.answer_key
                           = canvas.pages[i].header.answer_key)
                     => Len(canvas.pages[i].cells) = Capacity
        /\ pc = "done" =>
              \A key \in Passes :
                  LET cells == AllCells(PassPages(key))
                  IN  /\ Len(cells) = args.num_problems
                      /\ \A k \in 1 .. Len(cells) :
                            /\ cells[k].idx = k - 1
                            /\ cells[k].label[Len(cells[k].label)] = "."
                            /\ DigitsVal(SubSeq(cells[k].label, 1,
                                                Len(cells[k].label) - 1)) = k
                            /\ cells[k].drawn = draw_problem(problems[k], key)

C9_Witness ==
    /\ SheetDone /\ entry = "generate_powers_worksheet" /\ ~args.show_answers
    /\ args.num_problems = 21
    /\ Len(canvas.pages) = 3
    /\ Len(canvas.pages[2].cells) = 10
    /\ Len(canvas.pages[3].cells) = 1
    /\ canvas.pages[3].cells[1].label = <<"2", "1", ".">>

WithoutAnswer(drawn) == [f \in DOMAIN drawn \ {"answer"} |-> drawn[f]]

(***************************************************************************)
(* C10: with show_answers the answer-key pass has the layout of the plain  *)
(* pass: problem k is on the page at the same offset within its pass, in   *)
(* the same row and column, with the same label and the same problem       *)
(* record.                                                                 *)
(***************************************************************************)
C10_AnswerPassSameLayout ==
    (SheetDone /\ args.show_answers) =>
        LET plain == PassPages(FALSE)
            key == PassPages(TRUE)
        IN  /\ Len(key) = Len(plain)
            /\ \A i \in 1 .. Len(plain) :
                  /\ i <= Len(key)
                  /\ key[i].header.page_num = plain[i].header.page_num + Len(plain)
                  /\ Len(key[i].cells) = Len(plain[i].cells)
                  /\ \A j \in 1 .. Len(plain[i].cells) :
                        LET p == plain[i].cells[j]
                            k == key[i].cells[j]
                        IN  /\ k.row = p.row /\ k.col = p.col
                            /\ k.label = p.label /\ k.idx = p.idx
                            /\ WithoutAnswer(k.drawn) = WithoutAnswer(p.drawn)
                            /\ p.drawn.answer = None
                            /\ k.drawn = draw_problem(problems[p.idx + 1], TRUE)

C10_Witness ==
    /\ SheetDone /\ args.show_answers /\ entry = "generate_worksheet"
    /\ args.mixed_operations /\ args.num_problems = 31
    /\ Len(PassPages(TRUE)) = 2
    /\ PassPages(TRUE)[2].cells[1].row = 0 /\ PassPages(TRUE)[2].cells[1].col = 0
    /\ PassPages(TRUE)[1].cells[30].row = 5 /\ PassPages(TRUE)[1].cells[30].col = 4

(***************************************************************************)
(* Order of the passes on the canvas (canvas.pages is in emission order).  *)
(***************************************************************************)
PlainBeforeKey ==
    \A i \in 1 .. Len(canvas.pages) : \A j \in 1 .. Len(canvas.pages) :
        (i < j /\ IsKeyPage(canvas.pages[i])) => IsKeyPage(canvas.pages[j])

NoAnswerOnPlainPage(page) ==
    IsPlainPage(page) => \A j \in 1 .. Len(page.cells) : page.cells[j].drawn.answer = None

NoAnswerOnPlainPages ==
    /\ \A i \in 1 .. Len(canvas.pages) : NoAnswerOnPlainPage(canvas.pages[i])
    /\ canvas.page.header # None => NoAnswerOnPlainPage(canvas.page)

KeyPageSeen ==
    \/ \E i \in 1 .. Len(canvas.pages) : IsKeyPage(canvas.pages[i])
    \/ canvas.page.header # None /\ IsKeyPage(canvas.page)

SavedAfterLastPage ==
    canvas.saved =>
        /\ pc = "done"
        /\ canvas.page = BlankPage
        /\ \A key \in Passes : Len(AllCells(PassPages(key))) = args.num_problems

(***************************************************************************)
(* C11 (as amended): every page of the plain pass is emitted before any    *)
(* page of the answer pass; answers are never drawn on a plain-pass page;  *)
(* answer-pass pages are emitted only if show_answers is true, and are     *)
(* emitted whenever show_answers is true and num_problems >= 1; the        *)
(* document is saved only after the last page of the last pass.            *)
(***************************************************************************)
C11_PassOrder ==
    SheetStarted =>
        /\ PlainBeforeKey
        /\ NoAnswerOnPlainPages
        /\ KeyPageSeen => args.show_answers
        /\ pc = "done" =>
              (KeyPageSeen <=> (args.show_answers /\ args.num_problems >= 1))
        /\ SavedAfterLastPage

C11_Witness ==
    /\ SheetDone /\ args.show_answers /\ args.num_problems = 11
    /\ entry = "generate_powers_worksheet"
    /\ canvas.saved
    /\ Len(canvas.pages) = 4
    /\ IsPlainPage(canvas.pages[2]) /\ IsKeyPage(canvas.pages[3])
    /\ canvas.pages[3].cells[1].drawn.answer # None

(***************************************************************************)
(* C11 (as stated): as above, with answer-pass pages emitted if and only   *)
(* if show_answers is true.                                                *)
(***************************************************************************)
C11_Original ==
    SheetStarted =>
        /\ PlainBeforeKey
        /\ NoAnswerOnPlainPages
        /\ KeyPageSeen => args.show_answers
        /\ pc = "done" => (KeyPageSeen <=> args.show_answers)
        /\ SavedAfterLastPage

\* The number of times the normalization loops ran for the problem just
\* generated: the exponent written minus the exponent of the operands drawn.
NormalizationSteps ==
    ReadExponent(ExpText(ret.answer)) - ExpressionValue(locals).exp

(***************************************************************************)
(* C12: every worksheet generation terminates, for every num_problems      *)
(* >= 0: the normalization loops of a generated problem stop (after at     *)
(* most one iteration), each pass of the page loop draws at least one      *)
(* problem on the page it emits, and each call ends with the document      *)
(* saved or with an error.                                                 *)
(***************************************************************************)
C12_Terminates ==
    /\ []((entry = "generate_powers_worksheet" /\ pc = "append"
              /\ locals.problem_type \notin {"single", "multiply_two"})
            => NormalizationSteps \in 0 .. 1)
    /\ [](pc = "show" => Len(canvas.page.cells) >= 1)
    /\ <>(pc = "raised" \/ (pc = "done" /\ canvas.saved))

C12_Witness ==
    /\ pc = "done" /\ canvas.saved
    /\ entry = "generate_powers_worksheet"
    /\ args.level = "advanced"
    /\ args.num_problems > 2 * Capacity
    /\ args.show_answers
    /\ Len(canvas.pages) = 2 * Ceil(args.num_problems, Capacity)
    /\ NormalizationSteps = 1

\* The operator stored for an operator token
Stored(operation) ==
    IF operation = "*" THEN "×" ELSE IF operation = "/" THEN "÷" ELSE operation

\* answer is the stored operator applied to top and bottom
Applied(problem) ==
    IF problem.operation = "+" THEN problem.answer = problem.top + problem.bottom
    ELSE IF problem.operation = "-" THEN problem.answer = problem.top - problem.bottom
    ELSE IF problem.operation = "×" THEN problem.answer = problem.top * problem.bottom
    ELSE /\ problem.bottom # 0
         /\ problem.top = problem.bottom * problem.answer

(***************************************************************************)
(* C13: every record returned by generate_problem has its operator in      *)
(* {'+', '-', '×', '÷'} ('*' is stored as '×' and '/' as '÷') and its      *)
(* answer equal to that operator applied to top and bottom (for '÷' the    *)
(* exact quotient of top by bottom).                                       *)
(***************************************************************************)
C13_RecordWellFormed ==
    (ArithCalled /\ pc = "returned")
        => /\ ret.operation \in {"+", "-", "×", "÷"}
           /\ ret.operation = Stored(args.operation)
           /\ Applied(ret)

C13_Witness ==
    /\ ArithCalled /\ pc = "returned" /\ args.operation = "*"
    /\ ret.operation = "×" /\ ret.top = TimesClamp /\ ret.bottom = 0 - MaxNeg
    /\ ret.answer = 0 - (TimesClamp * MaxNeg)

\* The divisor list built over lo .. hi for the product is not empty, and
\* the divisor drawn is one of its elements
DrawnFromList(product, c, lo, hi) ==
    /\ \E d \in lo .. hi : product % d = 0
    /\ c \in lo .. hi
    /\ product % c = 0
    /\ product \div c >= 1

(***************************************************************************)
(* C14: in every powers template that divides (intermediate divide,        *)
(* advanced fraction, multi_term and complex_fraction) the divisor drawn   *)
(* divides the coefficient product exactly, so the raw coefficient is a    *)
(* positive integer; the divisor list is never empty, so the fallback      *)
(* branches (c = 1, or a random c) are never taken.                        *)
(***************************************************************************)
C14_CleanDivision ==
    PowersReturned =>
        /\ locals.problem_type = "divide"
               => DrawnFromList(locals.a, locals.b, 1, 9)
        /\ locals.problem_type = "fraction"
               => DrawnFromList(locals.a * locals.b, locals.c, 2, 19)
        /\ locals.problem_type = "multi_term"
               => DrawnFromList(locals.a * locals.b, locals.c, 2, 9)
        /\ locals.problem_type = "complex_fraction"
               => DrawnFromList(locals.a * locals.b, locals.c, 2, 11)

C14_Witness ==
    /\ PowersReturned /\ locals.problem_type = "multi_term"
    /\ locals.a = 7 /\ locals.b = 7 /\ locals.c = 7
    /\ CoefText(ret.answer) = <<"7">>

\* t is written as an integer: digits only
IntegerText(t) ==
    /\ t # <<>>
    /\ \A i \in 1 .. Len(t) : \E d \in 1 .. 10 : t[i] = DigitChars[d]

\* t is written as a decimal with 1 or 2 fractional digits, the last not "0"
DecimalText(t) ==
    LET k == IndexOf(t, ".")
    IN  /\ k > 1
        /\ IntegerText(SubSeq(t, 1, k - 1))
        /\ IntegerText(SubSeq(t, k + 1, Len(t)))
        /\ Len(t) - k \in 1 .. 2
        /\ t[Len(t)] # "0"

(***************************************************************************)
(* C15: in every scientific-notation answer (every template but the basic  *)
(* single term) the coefficient is written as an integer when it is exact  *)
(* and otherwise as a decimal with at most 2 fractional digits, no         *)
(* trailing zero and no trailing decimal point; the basic two-term         *)
(* product included.                                                       *)
(***************************************************************************)
C15_CoefficientFormat ==
    (PowersReturned /\ locals.problem_type # "single")
        => LET t == CoefText(ret.answer)
           IN  IF IndexOf(t, ".") = 0
                   THEN IntegerText(t)
                   ELSE DecimalText(t) /\ ~IsWhole(ReadDecimal(t))

C15_Witness ==
    /\ PowersReturned /\ locals.problem_type = "multiply_two"
    /\ locals.a = 9 /\ locals.b = 9
    /\ CoefText(ret.answer) = <<"8", ".", "1">>

\* problem.get('is_fraction', False)
IsFraction(problem) ==
    IF "is_fraction" \in DOMAIN problem THEN problem.is_fraction ELSE FALSE

FlagsConsistent(problem, problem_type) ==
    /\ IsDict(problem.expression) <=> IsFraction(problem)
    /\ IsFraction(problem) <=> problem_type = "complex_fraction"
    /\ problem.is_horizontal => ~problem.has_division
    /\ \A show_answer \in BOOLEAN :
          _draw_powers_problem(problem, show_answer).layout =
              IF IsDict(problem.expression) THEN "fraction" ELSE "text"

(***************************************************************************)
(* C16: the display-mode flags of every powers problem agree with its      *)
(* expression: the expression is a (numerator, denominator) pair if and    *)
(* only if is_fraction is true, which is so only for the advanced          *)
(* complex_fraction template; the renderer draws the vertical fraction     *)
(* exactly for those problems and text for all others, on a worksheet too; *)
(* is_horizontal is true only when has_division is false.                  *)
(***************************************************************************)
C16_FlagsConsistent ==
    /\ PowersReturned => FlagsConsistent(ret, locals.problem_type)
    /\ (entry = "generate_powers_worksheet" /\ pc = "append")
           => FlagsConsistent(ret, locals.problem_type)
    /\ (entry = "generate_powers_worksheet" /\ SheetStarted)
           => \A i \in 1 .. Len(canvas.pages) :
                 \A j \in 1 .. Len(canvas.pages[i].cells) :
                    LET cell == canvas.pages[i].cells[j]
                    IN  cell.drawn.layout = "fraction"
                            <=> IsDict(problems[cell.idx + 1].expression)

C16_Witness ==
    /\ entry = "generate_powers_worksheet" /\ SheetDone
    /\ \E i \in 1 .. Len(canvas.pages) :
          \E j \in 1 .. Len(canvas.pages[i].cells) :
             \E k \in 1 .. Len(canvas.pages[i].cells) :
                /\ canvas.pages[i].cells[j].drawn.layout = "fraction"
                /\ canvas.pages[i].cells[k].drawn.layout = "text"
                /\ problems[canvas.pages[i].cells[j].idx + 1].is_fraction
                /\ ~problems[canvas.pages[i].cells[k].idx + 1].is_fraction

UnknownOperationError == Raise("ValueError", "Unknown operation")

(***************************************************************************)
(* C17: generate_worksheet called with an unrecognized operator,           *)
(* mixed_operations = False and num_problems >= 1 fails during problem     *)
(* generation with the unknown-operation error: no problem is appended,    *)
(* no canvas is created, no page is drawn or emitted and nothing is saved. *)
(* With mixed_operations = True, whatever the operation argument, every    *)
(* problem generated has its operator in {'+', '-', '×', '÷'} and the call *)
(* never ends in the unknown-operation error.                              *)
(***************************************************************************)
C17_UnknownOperatorWorksheet ==
    entry = "generate_worksheet" =>
        /\ (args.operation \notin Recognized /\ ~args.mixed_operations
                /\ args.num_problems >= 1)
              => /\ pc \in {"call", "raised"}
                 /\ pc = "raised" => ret = UnknownOperationError
                 /\ problems = <<>>
                 /\ canvas = None
        /\ args.mixed_operations
              => /\ \A i \in 1 .. Len(problems) :
                        problems[i].operation \in {"+", "-", "×", "÷"}
                 /\ pc = "append" => ret.operation \in {"+", "-", "×", "÷"}
                 /\ pc = "raised" => ret # UnknownOperationError

C17_Witness ==
    /\ entry = "generate_worksheet"
    /\ args.operation = "%" /\ ~args.mixed_operations
    /\ args.num_problems = MaxProblems /\ args.show_answers
    /\ pc = "raised" /\ ret = UnknownOperationError
    /\ canvas = None

====
